---- MODULE Spec2Model ----
(***************************************************************************)
(* Model of src/app.py: a Flask service that wraps a pickled classifier.   *)
(* State: the module-level handle modelo_cargado, the request being        *)
(* answered and its response, the table and the classifier calls of that   *)
(* request, and one earlier exchange kept for comparison.                  *)
(*                                                                         *)
(* Probabilities are integers in units of 10^-(Decimales+1), so that       *)
(* round(p, 4) is a real conversion (the last digit is dropped).           *)
(***************************************************************************)
EXTENDS Integers, Sequences, FiniteSets, TLC

VARIABLES modelo_cargado, peticion, respuesta, df_prediccion, llamadas, anterior

vars == <<modelo_cargado, peticion, respuesta, df_prediccion, llamadas, anterior>>

(***************************************************************************)
(* Bounds of the explored inputs.                                          *)
(***************************************************************************)
\* JSON objects lacking at most this many schema fields are explored ...
MaxAusentes == 2
\* ... and JSON objects holding at most this many schema fields.
MaxPresentes == 1

(***************************************************************************)
(* The feature schema (app.py:29-39).                                      *)
(***************************************************************************)
CARACTERISTICAS_ESPERADAS ==
    << "num__total_a_pagar",
       "num__total_cantidad_productos",
       "num__total_productos_distintos",
       "num__stock_minimo_del_pedido",
       "num__total_categorias_distintas",
       "num__tasa_cancelaciones_historicas_cliente" >>

CARACTERISTICAS_CATEGORICAS == << "tipo_cliente", "canal_pedido" >>

Rango(s) == { s[i] : i \in 1..Len(s) }

Campos == Rango(CARACTERISTICAS_ESPERADAS) \cup Rango(CARACTERISTICAS_CATEGORICAS)

(***************************************************************************)
(* Request bodies: the value request.get_json() returns.                   *)
(*   tipo     the JSON kind                                                *)
(*   verdad   for bool and number: true / non-zero                         *)
(*   contiene the schema names that `name in data` finds: keys of an       *)
(*            object, elements of an array, substrings of a string         *)
(*   extra    the value has content outside the schema names               *)
(*   perfil   for an object: which values its keys carry                   *)
(***************************************************************************)
Perfiles == { "ejemplo", "otro", "abc" }

\* The value an object of the given profile holds under a key.
Valor(perfil, campo) ==
    CASE campo = "num__total_a_pagar" ->
            (CASE perfil = "ejemplo" -> "3375.0"
               [] perfil = "otro"    -> "120.5"
               [] OTHER              -> "abc")
      [] campo = "num__total_cantidad_productos" ->
            (IF perfil = "otro" THEN "1.0" ELSE "9.0")
      [] campo = "num__total_productos_distintos" ->
            (IF perfil = "otro" THEN "1" ELSE "3")
      [] campo = "num__stock_minimo_del_pedido" ->
            (IF perfil = "otro" THEN "5" ELSE "0")
      [] campo = "num__total_categorias_distintas" ->
            (IF perfil = "otro" THEN "1" ELSE "3")
      [] campo = "num__tasa_cancelaciones_historicas_cliente" ->
            (IF perfil = "otro" THEN "0.5" ELSE "0.0")
      [] campo = "tipo_cliente" ->
            (IF perfil = "otro" THEN "Cliente" ELSE "NoCliente")
      [] OTHER ->
            (IF perfil = "otro" THEN "Online" ELSE "Presencial")

Cuerpo(t, v, c, e, p) ==
    [tipo |-> t, verdad |-> v, contiene |-> c, extra |-> e, perfil |-> p]

Objetos ==
    { Cuerpo("object", TRUE, Campos, e, p) : e \in BOOLEAN, p \in Perfiles }
    \cup
    { Cuerpo("object", TRUE, c, FALSE, "ejemplo") :
        c \in { k \in SUBSET Campos :
                  /\ k # Campos
                  /\ \/ Cardinality(Campos \ k) <= MaxAusentes
                     \/ Cardinality(k) <= MaxPresentes } }
    \cup
    { Cuerpo("object", TRUE, {}, TRUE, "ejemplo") }

Escalares ==
    { Cuerpo("null", FALSE, {}, FALSE, "ejemplo") }
    \cup { Cuerpo(t, v, {}, FALSE, "ejemplo") : t \in {"bool", "number"}, v \in BOOLEAN }

Colecciones ==
    { Cuerpo(t, TRUE, c, e, "ejemplo") :
        t \in {"string", "array"},
        c \in { {}, {"num__total_a_pagar"}, Campos },
        e \in BOOLEAN }

Peticiones == Objetos \cup Escalares \cup Colecciones

(***************************************************************************)
(* Python semantics the handler relies on.                                 *)
(***************************************************************************)
\* Variant: `data is not None` in place of bool(data).
Truthy_SoloNone(data) == data.tipo # "null"

\* bool(data), the negation of `not data` (app.py:65)
Truthy(data) ==
    CASE data.tipo = "null"              -> FALSE
      [] data.tipo \in {"bool","number"} -> data.verdad
      [] OTHER                           -> data.contiene # {} \/ data.extra

\* `feature in data` raises TypeError for a bool or a number.
Iterable(data) == data.tipo \in {"string", "array", "object"}

\* `feature in data` for an iterable data
En(feature, data) == feature \in data.contiene

\* data[key] with a string key: only a dict supports it.
Indexable(data) == data.tipo = "object"

(***************************************************************************)
(* The loaded classifier (app.py:16-25).  The pickle is not part of the    *)
(* repository: a loaded handle is any deterministic estimator, described   *)
(* by the parameters below.  None is the handle after a failed load.       *)
(*   base, corte  probability offset and the estimator's own boundary      *)
(*   con_proba    whether the estimator offers predict_proba               *)
(***************************************************************************)
Decimales == 4

Escala == 10 * (10 ^ Decimales)

None == [cargado |-> FALSE, base |-> 0, corte |-> 0, con_proba |-> FALSE]

Modelos ==
    { [cargado |-> TRUE, base |-> 0,     corte |-> 1000,  con_proba |-> TRUE],
      [cargado |-> TRUE, base |-> 49999, corte |-> 52000, con_proba |-> TRUE],
      [cargado |-> TRUE, base |-> 5,     corte |-> 50000, con_proba |-> TRUE],
      [cargado |-> TRUE, base |-> 0,     corte |-> 1000,  con_proba |-> FALSE] }

EsNumero(v) ==
    v \in {"3375.0", "120.5", "9.0", "1.0", "3", "1", "0", "5", "0.0", "0.5"}

Peso(v) ==
    CASE v = "3375.0"    -> 3375
      [] v = "120.5"     -> 120
      [] v = "9.0"       -> 9
      [] v = "3"         -> 3
      [] v = "5"         -> 5
      [] v \in {"1.0", "1", "0.5"} -> 1
      [] v = "NoCliente" -> 1000
      [] v = "Online"    -> 500
      [] OTHER           -> 0

RECURSIVE SumaPesos(_)
SumaPesos(df) ==
    IF df = << >> THEN 0 ELSE Peso(Head(df).val) + SumaPesos(Tail(df))

Min(a, b) == IF a <= b THEN a ELSE b

\* The positive-class score of a row, in units of 1/Escala.
Puntuacion(modelo, df) == Min(Escala, modelo.base + SumaPesos(df))

Columnas(df) == { df[i].col : i \in 1..Len(df) }

\* The estimator rejects a table that lacks one of its columns or holds a
\* non-numeric value in a numeric column.
FilaValida(df) ==
    /\ Campos \subseteq Columnas(df)
    /\ \A i \in 1..Len(df) :
          df[i].col \in Rango(CARACTERISTICAS_ESPERADAS) => EsNumero(df[i].val)

Ok(v)      == [exc |-> "no", val |-> v]
Raise(e)   == [exc |-> e, val |-> 0]

\* modelo_cargado.predict(df)[0]
predict(modelo, df) ==
    IF ~FilaValida(df) THEN Raise("ValueError")
    ELSE Ok(IF Puntuacion(modelo, df) >= modelo.corte THEN 1 ELSE 0)

\* modelo_cargado.predict_proba(df)[0][1]
predict_proba(modelo, df) ==
    IF ~modelo.con_proba THEN Raise("AttributeError")
    ELSE IF ~FilaValida(df) THEN Raise("ValueError")
    ELSE Ok(Puntuacion(modelo, df))

\* Variant: the probability is returned unrounded.
Round4_SinRedondeo(p) == p

\* round(p, 4): to the nearest multiple of 10^-4, ties to the even one.
Round4(p) ==
    LET q == p \div 10
        r == p % 10
    IN  IF r < 5 \/ (r = 5 /\ q % 2 = 0) THEN 10 * q ELSE 10 * (q + 1)

(***************************************************************************)
(* Responses.  claves is the set of keys of the JSON body; a field whose   *)
(* key is absent holds "", << >> or -1.  origen tells a response built by  *)
(* the handler from the page Flask produces for an unhandled exception.    *)
(***************************************************************************)
MSG_NO_DISPONIBLE == "El modelo de prediccion no esta disponible. Revisa los logs del servidor."
MSG_SIN_DATOS     == "No se recibieron datos en la peticion. Se esperaba un JSON."
MSG_FALTAN_NUM    == "Peticion invalida. Faltan caracteristicas numericas requeridas."
MSG_FALTAN_CAT    == "Peticion invalida. Faltan caracteristicas categoricas requeridas."
MSG_TIPOS         == "Error en los datos de entrada. Detalle: "
MSG_INTERNO       == "Ocurrio un error interno en el servidor."

CANCELADO    == "Pedido probablemente Cancelado"
NO_CANCELADO == "Pedido probablemente No Cancelado"

Resp(o, st, k, e, d, f, t, c, p) ==
    [origen |-> o, status |-> st, claves |-> k, error |-> e, detalle |-> d,
     faltantes |-> f, texto |-> t, clase |-> c, prob |-> p]

SinRespuesta == Resp("nada", 0, {}, "", "", << >>, "", -1, -1)

\* jsonify({'error': msg}), status
RespError(st, msg, det) == Resp("handler", st, {"error"}, msg, det, << >>, "", -1, -1)

\* jsonify({'error': msg, 'caracteristicas_faltantes': f}), 400
RespFaltantes(msg, f) ==
    Resp("handler", 400, {"error", "caracteristicas_faltantes"}, msg, "", f, "", -1, -1)

\* jsonify({'prediccion_texto', 'prediccion_clase', 'probabilidad_de_cancelacion'})
RespPrediccion(t, c, p) ==
    Resp("handler", 200,
         {"prediccion_texto", "prediccion_clase", "probabilidad_de_cancelacion"},
         "", "", << >>, t, c, p)

\* An exception that leaves the view function: Flask answers 500 with its
\* own HTML page.
SinManejar(exc) == Resp("flask", 500, {}, "", exc, << >>, "", -1, -1)

Salida(r, df, ll) == [resp |-> r, df |-> df, llamadas |-> ll]

(***************************************************************************)
(* predecir_cancelacion (app.py:42-121), stage by stage.                   *)
(***************************************************************************)
\* Variant: the comprehension tests `in` instead of `not in`.
Faltantes_Presentes(lista, data) == SelectSeq(lista, LAMBDA f : En(f, data))

\* Variant: a module-level list that keeps the names of the previous answer.
Faltantes_Persistentes(lista, data) ==
    IF respuesta.faltantes # << >> THEN respuesta.faltantes
    ELSE SelectSeq(lista, LAMBDA f : ~En(f, data))

\* [feature for feature in lista if feature not in data]
Faltantes(lista, data) == SelectSeq(lista, LAMBDA f : ~En(f, data))

\* Variant: the table is built from the numeric names only.
datos_para_predecir_SoloNumericas(data) ==
    LET claves == CARACTERISTICAS_ESPERADAS
    IN  IF ~Indexable(data) THEN [exc |-> "TypeError", df |-> << >>]
        ELSE IF \E i \in 1..Len(claves) : ~En(claves[i], data)
             THEN [exc |-> "KeyError", df |-> << >>]
        ELSE [exc |-> "no",
              df  |-> [i \in 1..Len(claves) |->
                         [col |-> claves[i], val |-> Valor(data.perfil, claves[i])]]]

\* the dict comprehension and pd.DataFrame of lines 91-92
datos_para_predecir(data) ==
    LET claves == CARACTERISTICAS_ESPERADAS \o CARACTERISTICAS_CATEGORICAS
    IN  IF ~Indexable(data) THEN [exc |-> "TypeError", df |-> << >>]
        ELSE IF \E i \in 1..Len(claves) : ~En(claves[i], data)
             THEN [exc |-> "KeyError", df |-> << >>]
        ELSE [exc |-> "no",
              df  |-> [i \in 1..Len(claves) |->
                         [col |-> claves[i], val |-> Valor(data.perfil, claves[i])]]]

\* Variant: the class is derived from the probability with a 0.5 threshold.
Inferir_Umbral(modelo, df) ==
    LET p == predict_proba(modelo, df)
    IN  IF p.exc # "no"
          THEN [exc |-> p.exc, llamadas |-> <<"predict_proba">>,
                clase |-> -1, proba |-> -1]
        ELSE [exc |-> "no", llamadas |-> <<"predict_proba">>,
              clase |-> (IF 2 * p.val > Escala THEN 1 ELSE 0), proba |-> p.val]

\* lines 97-102: predict, then predict_proba, on the same table
Inferir(modelo, df) ==
    LET c == predict(modelo, df)
        p == predict_proba(modelo, df)
    IN  IF c.exc # "no"
          THEN [exc |-> c.exc, llamadas |-> <<"predict">>, clase |-> -1, proba |-> -1]
        ELSE IF p.exc # "no"
          THEN [exc |-> p.exc, llamadas |-> <<"predict", "predict_proba">>,
                clase |-> -1, proba |-> -1]
        ELSE [exc |-> "no", llamadas |-> <<"predict", "predict_proba">>,
              clase |-> c.val, proba |-> p.val]

\* Variant: the two labels are swapped.
etiqueta_prediccion_Invertida(resultado_clase) ==
    IF resultado_clase = 1 THEN NO_CANCELADO ELSE CANCELADO

\* line 105
etiqueta_prediccion(resultado_clase) ==
    IF resultado_clase = 1 THEN CANCELADO ELSE NO_CANCELADO

\* Variant: every exception is reported as a data error, with its detail.
Excepcion_TodoDatos(exc) == RespError(400, MSG_TIPOS, exc)

\* the except clauses of lines 116-121
Excepcion(exc) ==
    IF exc \in {"ValueError", "TypeError"}
    THEN RespError(400, MSG_TIPOS, exc)
    ELSE RespError(500, MSG_INTERNO, "")

\* lines 89-121: the try block
Intentar(modelo, data) ==
    LET d == datos_para_predecir(data)
    IN  IF d.exc # "no" THEN Salida(Excepcion(d.exc), << >>, << >>)
        ELSE LET i == Inferir(modelo, d.df)
             IN  IF i.exc # "no" THEN Salida(Excepcion(i.exc), d.df, i.llamadas)
                 ELSE Salida(RespPrediccion(etiqueta_prediccion(i.clase), i.clase,
                                            Round4(i.proba)),
                             d.df, i.llamadas)

\* lines 63-87: read and validate the body, then the try block
Atender(modelo, data) ==
    IF ~Truthy(data)
      THEN Salida(RespError(400, MSG_SIN_DATOS, ""), << >>, << >>)
    ELSE IF ~Iterable(data)
      THEN Salida(SinManejar("TypeError"), << >>, << >>)
    ELSE IF Faltantes(CARACTERISTICAS_ESPERADAS, data) # << >>
      THEN Salida(RespFaltantes(MSG_FALTAN_NUM,
                                Faltantes(CARACTERISTICAS_ESPERADAS, data)),
                  << >>, << >>)
    ELSE IF /\ CARACTERISTICAS_CATEGORICAS # << >>
            /\ Faltantes(CARACTERISTICAS_CATEGORICAS, data) # << >>
      THEN Salida(RespFaltantes(MSG_FALTAN_CAT,
                                Faltantes(CARACTERISTICAS_CATEGORICAS, data)),
                  << >>, << >>)
    ELSE Intentar(modelo, data)

\* Variant: the handle is checked after the body has been read.
predecir_cancelacion_CuerpoPrimero(modelo, data) ==
    IF ~Truthy(data)
    THEN Salida(RespError(400, MSG_SIN_DATOS, ""), << >>, << >>)
    ELSE IF modelo = None
    THEN Salida(RespError(503, MSG_NO_DISPONIBLE, ""), << >>, << >>)
    ELSE Atender(modelo, data)

\* lines 59-61, then the rest
predecir_cancelacion(modelo, data) ==
    IF modelo = None
    THEN Salida(RespError(503, MSG_NO_DISPONIBLE, ""), << >>, << >>)
    ELSE Atender(modelo, data)

\* GET / (lines 124-126): a static page
index == Resp("handler", 200, {}, "", "", << >>, "", -1, -1)

(***************************************************************************)
(* The state machine.                                                      *)
(***************************************************************************)
SinPeticion == Cuerpo("nada", FALSE, {}, FALSE, "ejemplo")

SinIntercambio == [data |-> SinPeticion, resp |-> SinRespuesta, modelo |-> None]

\* The exchanges kept for comparison with later ones.
Recordable(data) ==
    \/ data.tipo # "object"
    \/ Cardinality(Campos \ data.contiene) <= 1
    \/ data.contiene = {}

Init ==
    /\ modelo_cargado \in {None} \cup Modelos
    /\ peticion = SinPeticion
    /\ respuesta = SinRespuesta
    /\ df_prediccion = << >>
    /\ llamadas = << >>
    /\ anterior = SinIntercambio

\* POST /predecir with body data
Predecir(data) ==
    \E s \in { predecir_cancelacion(modelo_cargado, data) } :
        /\ peticion' = data
        /\ respuesta' = s.resp
        /\ df_prediccion' = s.df
        /\ llamadas' = s.llamadas
        /\ anterior' \in
              IF peticion.tipo # "nada" /\ Recordable(peticion)
              THEN { anterior,
                     [data |-> peticion, resp |-> respuesta, modelo |-> modelo_cargado] }
              ELSE { anterior }
        /\ UNCHANGED modelo_cargado

\* GET /
Index ==
    /\ peticion' = SinPeticion
    /\ respuesta' = index
    /\ df_prediccion' = << >>
    /\ llamadas' = << >>
    /\ UNCHANGED <<modelo_cargado, anterior>>

Next ==
    \/ \E data \in Peticiones : Predecir(data)
    \/ Index

Spec == Init /\ [][Next]_vars

(***************************************************************************)
(* Vocabulary of the properties.                                           *)
(***************************************************************************)
\* respuesta answers a POST /predecir whose body was peticion
Atendida == peticion.tipo # "nada"

Cargado == modelo_cargado # None

Esquema == CARACTERISTICAS_ESPERADAS \o CARACTERISTICAS_CATEGORICAS

EsObjeto(data) == data.tipo = "object"

Completa(data) == EsObjeto(data) /\ Campos \subseteq data.contiene

ObjetoVacio == Cuerpo("object", TRUE, {}, FALSE, "ejemplo")

\* f lists, once each and in the order of lista, the names of lista that
\* data lacks
ListaDeAusentes(f, lista, data) ==
    /\ Rango(f) = { x \in Rango(lista) : x \notin data.contiene }
    /\ Len(f) = Cardinality(Rango(f))
    /\ \A i, j \in 1..Len(f) :
          i < j => \E a, b \in 1..Len(lista) :
                      a < b /\ lista[a] = f[i] /\ lista[b] = f[j]

BienTipada(data) ==
    \A c \in Rango(CARACTERISTICAS_ESPERADAS) : EsNumero(Valor(data.perfil, c))

(***************************************************************************)
(* Properties.                                                             *)
(***************************************************************************)

\* C1: when the model failed to load, every POST /predecir is answered 503
\* with an 'error' field, whatever the body and whatever came before.
C1_SinModelo503 ==
    (modelo_cargado = None /\ Atendida) =>
        /\ respuesta.origen = "handler"
        /\ respuesta.status = 503
        /\ "error" \in respuesta.claves

\* a body that would be rejected as empty is answered 503, after an earlier
\* complete request
C1_Witness ==
    /\ modelo_cargado = None
    /\ peticion = ObjetoVacio
    /\ Completa(anterior.data)
    /\ respuesta.status = 503

\* C2 as stated: a non-empty object lacking schema fields is answered 400
\* with the list of ALL absent schema fields, numeric then categorical.
C2_Original ==
    (Cargado /\ EsObjeto(peticion) /\ Truthy(peticion) /\ ~Completa(peticion)) =>
        /\ respuesta.status = 400
        /\ "caracteristicas_faltantes" \in respuesta.claves
        /\ ListaDeAusentes(respuesta.faltantes, Esquema, peticion)

\* C2 amended: the list holds the absent numeric fields, in schema order,
\* when a numeric field is absent, and otherwise the absent categorical
\* fields, in schema order.
C2_FaltantesPorGrupo ==
    (Cargado /\ EsObjeto(peticion) /\ Truthy(peticion) /\ ~Completa(peticion)) =>
        /\ respuesta.origen = "handler"
        /\ respuesta.status = 400
        /\ respuesta.claves = {"error", "caracteristicas_faltantes"}
        /\ IF Rango(CARACTERISTICAS_ESPERADAS) \subseteq peticion.contiene
           THEN ListaDeAusentes(respuesta.faltantes, CARACTERISTICAS_CATEGORICAS, peticion)
           ELSE ListaDeAusentes(respuesta.faltantes, CARACTERISTICAS_ESPERADAS, peticion)

\* a numeric and a categorical field are both absent and only the numeric
\* one is listed
C2_Witness ==
    /\ Cargado
    /\ EsObjeto(peticion)
    /\ Campos \ peticion.contiene = {"num__stock_minimo_del_pedido", "canal_pedido"}
    /\ respuesta.status = 400
    /\ respuesta.faltantes = <<"num__stock_minimo_del_pedido">>

\* C3 as stated: the body {} is answered 400 with caracteristicas_faltantes
\* equal to the six numeric fields.
C3_Original ==
    (Cargado /\ peticion = ObjetoVacio) =>
        /\ respuesta.status = 400
        /\ "caracteristicas_faltantes" \in respuesta.claves
        /\ respuesta.faltantes = CARACTERISTICAS_ESPERADAS

\* C3 amended: the body {} is answered 400 with the 'no data' error alone,
\* without a caracteristicas_faltantes key.
C3_VacioSinDatos ==
    (Cargado /\ peticion = ObjetoVacio) =>
        /\ respuesta.origen = "handler"
        /\ respuesta.status = 400
        /\ respuesta.claves = {"error"}
        /\ respuesta.error = MSG_SIN_DATOS

C3_Witness ==
    /\ Cargado
    /\ peticion = ObjetoVacio
    /\ respuesta.status = 400

\* C4: every POST /predecir, for every JSON value and handle state, is
\* answered by the handler itself with 200, 400, 500 or 503, and every
\* answer other than 200 has an 'error' field.
C4_Original ==
    Atendida =>
        /\ respuesta.origen = "handler"
        /\ respuesta.status \in {200, 400, 500, 503}
        /\ respuesta.status # 200 => "error" \in respuesta.claves

\* C5: a complete, correctly typed request on which both inference calls
\* succeed is answered 200 with exactly the three result keys, a class of 0
\* or 1 and a probability in [0,1] that is a multiple of 10^-4.
C5_Exito ==
    (Cargado /\ modelo_cargado.con_proba /\ Completa(peticion) /\ BienTipada(peticion)) =>
        /\ respuesta.origen = "handler"
        /\ respuesta.status = 200
        /\ respuesta.claves =
              {"prediccion_texto", "prediccion_clase", "probabilidad_de_cancelacion"}
        /\ respuesta.clase \in {0, 1}
        /\ respuesta.prob \in 0..Escala
        /\ respuesta.prob % 10 = 0

\* a success whose probability was changed by the rounding
C5_Witness ==
    /\ Completa(peticion)
    /\ respuesta.status = 200
    /\ respuesta.prob # Puntuacion(modelo_cargado, df_prediccion)

\* The exception the try block meets for a request: from the construction of
\* the table, else from the inference calls ("no" when there is none).
Fallo(modelo, data) ==
    LET d == datos_para_predecir(data)
    IN  IF d.exc # "no" THEN d.exc ELSE Inferir(modelo, d.df).exc

\* C6: with all schema fields present, a ValueError or TypeError is answered
\* 400 with an 'error' carrying the detail and no prediccion_clase; any other
\* exception is answered 500 with the fixed message and no detail.
C6_Excepciones ==
    (Cargado /\ Atendida /\ Iterable(peticion) /\ Campos \subseteq peticion.contiene) =>
        LET e == Fallo(modelo_cargado, peticion)
        IN  /\ e \in {"ValueError", "TypeError"} =>
                 /\ respuesta.origen = "handler"
                 /\ respuesta.status = 400
                 /\ respuesta.claves = {"error"}
                 /\ respuesta.error = MSG_TIPOS
                 /\ respuesta.detalle = e
            /\ e \notin {"no", "ValueError", "TypeError"} =>
                 /\ respuesta.origen = "handler"
                 /\ respuesta.status = 500
                 /\ respuesta.claves = {"error"}
                 /\ respuesta.error = MSG_INTERNO
                 /\ respuesta.detalle = ""

\* a 500 for a failing predict_proba, after a 400 for "abc" in a numeric field
C6_Witness ==
    /\ Completa(peticion)
    /\ respuesta.status = 500
    /\ llamadas = <<"predict", "predict_proba">>
    /\ Completa(anterior.data)
    /\ anterior.data.perfil = "abc"
    /\ anterior.resp.status = 400
    /\ anterior.resp.detalle = "ValueError"

C8_Fila ==
    /\ (Atendida /\ Cargado /\ Completa(peticion)) =>
          /\ Len(df_prediccion) = Len(Esquema)
          /\ \A i \in 1..Len(Esquema) :
                /\ df_prediccion[i].col = Esquema[i]
                /\ df_prediccion[i].val = Valor(peticion.perfil, Esquema[i])
          /\ respuesta.claves \subseteq
                {"error", "prediccion_texto", "prediccion_clase",
                 "probabilidad_de_cancelacion"}
    /\ (Atendida /\ Completa(peticion) /\ Completa(anterior.data)
          /\ anterior.data.perfil = peticion.perfil) =>
          anterior.resp = respuesta

\* a successful request with extra keys, after the same without them
C8_Witness ==
    /\ Completa(peticion)
    /\ peticion.extra
    /\ Completa(anterior.data)
    /\ ~anterior.data.extra
    /\ anterior.data.perfil = peticion.perfil
    /\ respuesta.status = 200
    /\ Len(df_prediccion) = 8

\* C9: in a 200 answer of POST /predecir the text is the cancelled message
\* exactly when the class is 1 and the not-cancelled message exactly when
\* the class is 0.
C9_Etiqueta ==
    (Atendida /\ respuesta.status = 200) =>
        /\ respuesta.texto = CANCELADO <=> respuesta.clase = 1
        /\ respuesta.texto = NO_CANCELADO <=> respuesta.clase = 0

\* both labels have been answered by the same service
C9_Witness ==
    /\ Atendida
    /\ respuesta.status = 200
    /\ respuesta.clase = 1
    /\ anterior.resp.status = 200
    /\ anterior.resp.clase = 0

\* C10: on success the class is the label predict returned and the
\* probability is the (rounded) positive-class value predict_proba returned,
\* both for the assembled table, predict being called first.
C10_DecisionCruda ==
    (Atendida /\ respuesta.status = 200) =>
        /\ llamadas = <<"predict", "predict_proba">>
        /\ respuesta.clase = predict(modelo_cargado, df_prediccion).val
        /\ respuesta.prob = Round4(predict_proba(modelo_cargado, df_prediccion).val)

\* class 1 with a probability below one half
C10_Witness ==
    /\ Atendida
    /\ respuesta.status = 200
    /\ respuesta.clase = 1
    /\ 2 * respuesta.prob <= Escala

====
